---- MODULE Spec2Model ----
(***************************************************************************)
(* State-machine model of the document question-answering backend          *)
(* (DOCQA/backend/main.py, gemini.py, models.py).                          *)
(*                                                                         *)
(* The handlers are asyncio coroutines running on one event loop: the code *)
(* between two awaits of an external capability runs atomically.  Each     *)
(* handler is therefore modelled by a "start" action (everything up to the *)
(* await of client.chat.completions.create, or up to the response when the *)
(* handler never reaches it) and a "resume" action (everything after it).  *)
(* A suspended coroutine is an element of the bag `pending`; the response  *)
(* sent for the most recently finished request is `last`.                  *)
(*                                                                         *)
(* Text is modelled as a sequence of one-character strings so that         *)
(* str.lower, str.strip, str.endswith and concatenation are computed.      *)
(***************************************************************************)
EXTENDS Integers, Sequences, FiniteSets, Bags

VARIABLES documents_store, issued, pending, last

vars == <<documents_store, issued, pending, last>>

(***************************************************************************)
(* Bounds of the model.                                                    *)
(***************************************************************************)
\* number of identifiers uuid4 can hand out in one run
MaxDocs == 2
\* number of coroutines suspended at the generation capability at once
MaxPending == 2
\* largest max_results of an arxiv search request
MaxResults == 2

(***************************************************************************)
(* Text                                                                    *)
(***************************************************************************)
\* Optional[str] = None
None == <<"None">>

\* str.lower on one character
LowerChar(c) ==
    CASE c = "A" -> "a"
      [] c = "B" -> "b"
      [] c = "D" -> "d"
      [] c = "F" -> "f"
      [] c = "P" -> "p"
      [] OTHER -> c

\* str.lower
Lower(s) == [i \in DOMAIN s |-> LowerChar(s[i])]

\* str.endswith
EndsWith(s, suffix) ==
    /\ Len(s) >= Len(suffix)
    /\ SubSeq(s, Len(s) - Len(suffix) + 1, Len(s)) = suffix

\* the characters str.strip removes
Whitespace == {" ", "\n"}

RECURSIVE LStrip(_)
LStrip(s) ==
    IF s # <<>> /\ Head(s) \in Whitespace THEN LStrip(Tail(s)) ELSE s

RECURSIVE RStrip(_)
RStrip(s) ==
    IF s # <<>> /\ s[Len(s)] \in Whitespace
    THEN RStrip(SubSeq(s, 1, Len(s) - 1))
    ELSE s

\* str.strip
Strip(s) == RStrip(LStrip(s))

\* truth value of an Optional[str]: None and "" are falsy
Truthy(s) == s # None /\ s # <<>>

\* dict.get(key, default)
Get(d, key, default) == IF key \in DOMAIN d THEN d[key] ELSE default

(***************************************************************************)
(* Inputs and external capabilities                                        *)
(***************************************************************************)
\* identifiers str(uuid.uuid4()) can return; 0 is an id no document ever has
Ids == 1..MaxDocs
QueryIds == 0..MaxDocs

\* upload names: two that end in ".pdf" ignoring case, one that does not
FileNames ==
    { <<"a", ".", "p", "d", "f">>,
      <<"b", ".", "P", "D", "F">>,
      <<"a", ".", "t", "x", "t">> }

PdfSuffix == <<".", "p", "d", "f">>

\* uploaded byte contents: "%PDF", the PNG signature, plain text "hi"
PdfBytes == <<37, 80, 68, 70>>
PngBytes == <<137, 80, 78, 71>>
TextBytes == <<104, 105>>
FileContents == {PdfBytes, PngBytes, TextBytes}

\* filetype.guess(file_content): the MIME type of the signature the content
\* starts with, or no kind at all
NoKind == "None"
Guess(file_content) ==
    IF Len(file_content) >= 4 /\ SubSeq(file_content, 1, 4) = PdfBytes
        THEN "application/pdf"
    ELSE IF Len(file_content) >= 4 /\ SubSeq(file_content, 1, 4) = PngBytes
        THEN "image/png"
    ELSE NoKind

\* metadata objects the extraction call can answer with
MetaPaper ==
    [ title |-> <<"T">>,
      text_content |-> <<"t">>,
      abstract |-> <<"a", "b">>,
      sections |-> << [title |-> <<"A", "b">>, content |-> <<"x">>],
                      [title |-> <<"a", "B">>, content |-> <<"y">>] >>,
      references |-> <<>> ]
MetaEmpty ==
    [ title |-> <<>>, abstract |-> <<" ">>, sections |-> <<>>,
      references |-> <<>> ]
MetaBlankSection ==
    [ title |-> <<>>, abstract |-> <<>>,
      sections |-> << [title |-> <<>>, content |-> <<>>] >>,
      references |-> <<>> ]
MetaBlankContent ==
    [ title |-> <<"T">>, abstract |-> <<"a">>,
      sections |-> << [title |-> <<"A">>, content |-> <<" ">>] >>,
      references |-> <<>> ]
MetaBare == [ text_content |-> <<"t">> ]
MetaNoSectionTitle ==
    [ abstract |-> <<"a">>, sections |-> << [content |-> <<"x">>] >> ]
MetaNoSectionContent ==
    [ title |-> <<"T">>, sections |-> << [title |-> <<"A">>] >> ]
Metas ==
    { MetaPaper, MetaEmpty, MetaBlankSection, MetaBlankContent, MetaBare,
      MetaNoSectionTitle, MetaNoSectionContent }

\* what client.chat.completions.create does: it raises, or it returns a
\* message whose content is None, is not JSON, is JSON but no object, or is
\* a JSON object (for the calls that ask for free text: a text)
GenRaise == [tag |-> "raise", val |-> <<>>]
GenNone == [tag |-> "none", val |-> <<>>]
GenInvalid == [tag |-> "invalid", val |-> <<>>]
GenArray == [tag |-> "array", val |-> <<>>]
GenObject(o) == [tag |-> "object", val |-> o]
GenText(t) == [tag |-> "text", val |-> t]

\* the metadata objects the full system is run with
IngestMetas == {MetaPaper, MetaNoSectionTitle}
IngestResponses ==
    {GenRaise, GenNone, GenInvalid, GenArray}
        \cup {GenObject(m) : m \in IngestMetas}
ExtractResponses ==
    { GenRaise, GenNone, GenInvalid, GenArray,
      GenObject([accuracy |-> <<"9">>]) }
TextResponses == {GenRaise, GenNone, GenText(<<" ", "o", "k", "\n">>)}

\* json.loads(content): TypeError on None, JSONDecodeError on text that is
\* not JSON, else the value
JsonLoads(content) ==
    IF content.tag = "none"
    THEN [ok |-> FALSE, type |-> "TypeError", val |-> <<>>]
    ELSE IF content.tag = "invalid"
    THEN [ok |-> FALSE, type |-> "JSONDecodeError", val |-> <<>>]
    ELSE [ok |-> TRUE, type |-> content.tag, val |-> content.val]

\* section_title values of a SummarizeRequest
SectionTitles == {None, <<>>, <<"a", "b">>, <<"A">>, <<"z">>}
\* the section_title values the full system is run with
SomeSectionTitles == {None, <<"a", "b">>}

\* one accepted and one refused UploadFile.filename
SomeFileNames == {<<"a", ".", "p", "d", "f">>, <<"a", ".", "t", "x", "t">>}

(***************************************************************************)
(* Responses                                                               *)
(***************************************************************************)
NoBody == <<>>
NoReq == <<>>

\* the response of a finished request, with what the handler did on the way
Response(op, req, status, detail, body, idgen, raster, gen) ==
    [ op |-> op, req |-> req, status |-> status, detail |-> detail,
      body |-> body, idgen |-> idgen, raster |-> raster, gen |-> gen ]

Init ==
    /\ documents_store = <<>>
    /\ issued = {}
    /\ pending = EmptyBag
    /\ last = Response("none", NoReq, 0, "", NoBody, FALSE, FALSE, FALSE)

\* the coroutine suspends at `await client.chat.completions.create(...)`
Suspend(frame) ==
    /\ BagCardinality(pending) < MaxPending
    /\ pending' = pending (+) SetToBag({frame})

\* the suspended coroutine continues with the capability's outcome
Resume(frame) ==
    /\ BagIn(frame, pending)
    /\ pending' = pending (-) SetToBag({frame})

(***************************************************************************)
(* Ingestion: upload_document and process_pdf_document                     *)
(***************************************************************************)
\* class ProcessedDocument(BaseModel)
ProcessedDocument(id, filename, extracted_text, metadata) ==
    [ id |-> id, filename |-> filename, extracted_text |-> extracted_text,
      metadata |-> metadata ]

\* mutant of FreshIds: an identifier may be handed out twice
RepeatableIds == Ids

\* str(uuid.uuid4()): an identifier that was never handed out before.  The
\* value is opaque to the program, so identifiers are named in order of issue.
FreshIds == {i \in Ids \ issued : \A j \in Ids \ issued : i <= j}

\* `not file.filename.lower().endswith(".pdf")`
NameRejected(filename) == ~EndsWith(Lower(filename), PdfSuffix)

\* mutant of ProcessStart: the content is not sniffed, the name is trusted
ProcessStartUnsniffed(file_content, rasterOk) ==
    IF ~rasterOk
    THEN [ step |-> "raise", idgen |-> TRUE, raster |-> TRUE,
           detail |-> "Error converting PDF pages to images" ]
    ELSE [ step |-> "await", idgen |-> TRUE, raster |-> TRUE, detail |-> "" ]

\* process_pdf_document up to its await: the exception it raises, or "await"
\* when it reaches the generation call.  rasterOk is whether fitz renders
\* every page of the content.
ProcessStart(file_content, rasterOk) ==
    LET kind == Guess(file_content) IN
    IF kind = NoKind
    THEN [ step |-> "raise", idgen |-> FALSE, raster |-> FALSE,
           detail |-> "Could not determine file type from content." ]
    ELSE IF kind # "application/pdf"
    THEN [ step |-> "raise", idgen |-> FALSE, raster |-> FALSE,
           detail |-> "Unsupported file type. Only PDFs are allowed." ]
    ELSE IF ~rasterOk
    THEN [ step |-> "raise", idgen |-> TRUE, raster |-> TRUE,
           detail |-> "Error converting PDF pages to images" ]
    ELSE [ step |-> "await", idgen |-> TRUE, raster |-> TRUE, detail |-> "" ]

\* mutant of ProcessFinish: doc_id is a module-level name that every upload
\* rebinds, so the document is built with the id handed out last
ProcessFinishSharedId(doc_id, filename, response) ==
    IF response.tag # "object"
    THEN [ step |-> "raise", exc |-> "APIError", doc |-> NoBody ]
    ELSE [ step |-> "return", exc |-> "",
           doc |-> [ id |-> CHOOSE i \in issued : \A j \in issued : j <= i,
                     filename |-> filename,
                     extracted_text |-> Get(response.val, "text_content", <<>>),
                     metadata |-> response.val ] ]

\* process_pdf_document after its await: the exception that leaves the try
\* block (re-raised by `except Exception: raise`), or the document built
ProcessFinish(doc_id, filename, response) ==
    IF response.tag = "raise"
    THEN [ step |-> "raise", exc |-> "APIError", doc |-> NoBody ]
    ELSE LET extracted_metadata == JsonLoads(response) IN
         IF ~extracted_metadata.ok
         THEN [ step |-> "raise", exc |-> extracted_metadata.type,
                doc |-> NoBody ]
         ELSE IF extracted_metadata.type # "object"
         THEN [ step |-> "raise", exc |-> "AttributeError", doc |-> NoBody ]
         ELSE [ step |-> "return", exc |-> "",
                doc |-> ProcessedDocument(
                            doc_id, filename,
                            Get(extracted_metadata.val, "text_content", <<>>),
                            extracted_metadata.val) ]

\* mutant of StorePut: the store is rebound to a dict holding the new entry
StorePutAlone(store, doc_id, processed_doc) ==
    [ i \in {doc_id} |-> processed_doc ]

\* documents_store[doc_id] = processed_doc
StorePut(store, doc_id, processed_doc) ==
    [ i \in DOMAIN store \cup {doc_id} |->
        IF i = doc_id THEN processed_doc ELSE store[i] ]

\* how upload_document maps an exception of process_pdf_document:
\* ValueError (JSONDecodeError is one) to 400, anything else to 500
UploadStatus(exc) ==
    IF exc \in {"ValueError", "JSONDecodeError"} THEN 400 ELSE 500

\* the request as `last` reports it: what was uploaded and, once the
\* generation call has answered, what it answered
UploadReq(filename, file_content, response) ==
    [filename |-> filename, content |-> file_content, response |-> response]

\* mutant of AwaitExtraction: the document is registered before the
\* generation call, with the metadata still to come
AwaitExtractionRegistered(doc_id, filename, file_content) ==
    /\ Suspend([ op |-> "upload", id |-> doc_id, arg |-> filename,
                 payload |-> file_content ])
    /\ documents_store' =
         [ i \in DOMAIN documents_store \cup {doc_id} |->
             IF i = doc_id
             THEN [ id |-> doc_id, filename |-> filename,
                    extracted_text |-> <<>>, metadata |-> [pending |-> TRUE] ]
             ELSE documents_store[i] ]
    /\ UNCHANGED last

\* process_pdf_document reaches `await client.chat.completions.create(...)`:
\* doc_id, filename and the page images live in the suspended coroutine
AwaitExtraction(doc_id, filename, file_content) ==
    /\ Suspend([ op |-> "upload", id |-> doc_id, arg |-> filename,
                 payload |-> file_content ])
    /\ UNCHANGED <<documents_store, last>>

\* POST /upload-document/ up to the await of the generation call
upload_document(filename, file_content) ==
    LET req == UploadReq(filename, file_content, NoBody) IN
    IF NameRejected(filename)
    THEN /\ last' = Response("upload", req, 400, "Only PDF files are allowed.",
                             NoBody, FALSE, FALSE, FALSE)
         /\ UNCHANGED <<documents_store, issued, pending>>
    ELSE IF ProcessStart(file_content, TRUE).idgen = FALSE
    THEN /\ last' = Response("upload", req, UploadStatus("ValueError"),
                             ProcessStart(file_content, TRUE).detail,
                             NoBody, FALSE, FALSE, FALSE)
         /\ UNCHANGED <<documents_store, issued, pending>>
    ELSE \E doc_id \in FreshIds, rasterOk \in BOOLEAN :
           LET out == ProcessStart(file_content, rasterOk) IN
           /\ issued' = issued \cup {doc_id}
           /\ IF out.step = "raise"
              THEN /\ last' = Response("upload", req, UploadStatus("ValueError"),
                                       out.detail, NoBody,
                                       out.idgen, out.raster, FALSE)
                   /\ UNCHANGED <<documents_store, pending>>
              ELSE AwaitExtraction(doc_id, filename, file_content)

\* POST /upload-document/ from the generation call's outcome on
upload_document_resume(frame, response) ==
    LET out == ProcessFinish(frame.id, frame.arg, response)
        req == UploadReq(frame.arg, frame.payload, response)
    IN
    /\ frame.op = "upload"
    /\ Resume(frame)
    /\ IF out.step = "raise"
       THEN /\ last' = Response("upload", req, UploadStatus(out.exc), out.exc,
                                NoBody, TRUE, TRUE, TRUE)
            /\ UNCHANGED documents_store
       ELSE /\ documents_store' = StorePut(documents_store, frame.id, out.doc)
            /\ last' = Response("upload", req, 200, "",
                                [ filename |-> out.doc.filename,
                                  document_id |-> out.doc.id ],
                                TRUE, TRUE, TRUE)
    /\ UNCHANGED issued

\* GET /documents/{document_id}
get_document_details(document_id) ==
    /\ IF document_id \notin DOMAIN documents_store
       THEN last' = Response("get", [id |-> document_id], 404,
                             "Document not found.", NoBody, FALSE, FALSE, FALSE)
       ELSE last' = Response("get", [id |-> document_id], 200, "",
                             documents_store[document_id], FALSE, FALSE, FALSE)
    /\ UNCHANGED <<documents_store, issued, pending>>

(***************************************************************************)
(* Query operations                                                        *)
(***************************************************************************)
\* mutant of QueryStatus: the `except ValueError` clause is missing
QueryStatusNoValueError(exc) == 500

\* how the query endpoints map an exception: ValueError to 404, others to 500
QueryStatus(exc) == IF exc = "ValueError" THEN 404 ELSE 500

DocumentNotFound == "Document with ID not found."
SectionNotFound == "Section not found in document."
Sentinel == <<"No content found to summarize.">>

\* `response.choices[0].message.content.strip()` when no text came back:
\* the call's own exception, or AttributeError on a None content
TextFailure(response) ==
    IF response.tag = "raise" THEN "APIError" ELSE "AttributeError"

\* `document_id not in documents_store` of the three query functions
Unknown(document_id) == document_id \notin DOMAIN documents_store

\* POST /query-document/ up to the await: the prompt carries
\* json.dumps(doc.metadata) and the question
query_document(document_id) ==
    /\ IF Unknown(document_id)
       THEN /\ last' = Response("query", [id |-> document_id],
                                QueryStatus("ValueError"), DocumentNotFound,
                                NoBody, FALSE, FALSE, FALSE)
            /\ UNCHANGED pending
       ELSE /\ Suspend([ op |-> "query", id |-> document_id,
                         arg |-> <<>>,
                         payload |-> documents_store[document_id].metadata ])
            /\ UNCHANGED last
    /\ UNCHANGED <<documents_store, issued>>

\* POST /query-document/ from the generation call's outcome on
query_document_resume(frame, response) ==
    /\ frame.op = "query"
    /\ Resume(frame)
    /\ IF response.tag # "text"
       THEN last' = Response("query", [id |-> frame.id],
                             QueryStatus(TextFailure(response)),
                             TextFailure(response), NoBody, FALSE, FALSE, TRUE)
       ELSE last' = Response("query", [id |-> frame.id], 200, "",
                             Strip(response.val), FALSE, FALSE, TRUE)
    /\ UNCHANGED <<documents_store, issued>>

\* the loop over doc.metadata.get("sections", []) that looks a section up
RECURSIVE FindSection(_, _)
FindSection(sections, section_title) ==
    IF sections = <<>>
    THEN [step |-> "raise", exc |-> "ValueError", content |-> <<>>]
    ELSE LET section == Head(sections) IN
         IF "title" \notin DOMAIN section
         THEN [step |-> "raise", exc |-> "KeyError", content |-> <<>>]
         ELSE IF Lower(section.title) = Lower(section_title)
         THEN IF "content" \notin DOMAIN section
              THEN [step |-> "raise", exc |-> "KeyError", content |-> <<>>]
              ELSE [step |-> "found", exc |-> "", content |-> section.content]
         ELSE FindSection(Tail(sections), section_title)

\* the loop that appends f"{section['title']}:\n{section['content']}\n\n"
RECURSIVE JoinSections(_, _)
JoinSections(sections, acc) ==
    IF sections = <<>>
    THEN [step |-> "found", exc |-> "", content |-> acc]
    ELSE LET section == Head(sections) IN
         IF "title" \notin DOMAIN section \/ "content" \notin DOMAIN section
         THEN [step |-> "raise", exc |-> "KeyError", content |-> <<>>]
         ELSE JoinSections(Tail(sections),
                           acc \o section.title \o <<":", "\n">>
                               \o section.content \o <<"\n", "\n">>)

\* content_to_summarize of summarize_document_section, or the exception
ContentToSummarize(metadata, section_title) ==
    IF Truthy(section_title)
    THEN FindSection(Get(metadata, "sections", <<>>), section_title)
    ELSE JoinSections(Get(metadata, "sections", <<>>),
                      Get(metadata, "abstract", <<>>) \o <<"\n", "\n">>)

\* `if not content_to_summarize.strip()`
NothingToSummarize(content_to_summarize) == Strip(content_to_summarize) = <<>>

\* POST /summarize-document/ up to the await; granularity goes into the
\* prompt verbatim and decides nothing
summarize_document_section(document_id, section_title) ==
    LET req == [id |-> document_id, section_title |-> section_title] IN
    /\ IF Unknown(document_id)
       THEN /\ last' = Response("summarize", req, QueryStatus("ValueError"),
                                DocumentNotFound, NoBody, FALSE, FALSE, FALSE)
            /\ UNCHANGED pending
       ELSE LET out == ContentToSummarize(documents_store[document_id].metadata,
                                          section_title) IN
            IF out.step = "raise"
            THEN /\ last' = Response("summarize", req, QueryStatus(out.exc),
                                     IF out.exc = "ValueError"
                                         THEN SectionNotFound ELSE out.exc,
                                     NoBody, FALSE, FALSE, FALSE)
                 /\ UNCHANGED pending
            ELSE IF NothingToSummarize(out.content)
            THEN /\ last' = Response("summarize", req, 200, "", Sentinel,
                                     FALSE, FALSE, FALSE)
                 /\ UNCHANGED pending
            ELSE /\ Suspend([ op |-> "summarize", id |-> document_id,
                              arg |-> section_title,
                              payload |-> out.content ])
                 /\ UNCHANGED last
    /\ UNCHANGED <<documents_store, issued>>

\* POST /summarize-document/ from the generation call's outcome on
summarize_document_resume(frame, response) ==
    LET req == [id |-> frame.id, section_title |-> frame.arg] IN
    /\ frame.op = "summarize"
    /\ Resume(frame)
    /\ IF response.tag # "text"
       THEN last' = Response("summarize", req,
                             QueryStatus(TextFailure(response)),
                             TextFailure(response), NoBody, FALSE, FALSE, TRUE)
       ELSE last' = Response("summarize", req, 200, "",
                             Strip(response.val), FALSE, FALSE, TRUE)
    /\ UNCHANGED <<documents_store, issued>>

\* extract_evaluation_results after its await: the exception raised by the
\* call, or the value returned (json.loads of the content, or the error
\* object when json.loads raises JSONDecodeError)
ExtractFinish(response) ==
    IF response.tag = "raise"
    THEN [step |-> "raise", exc |-> "APIError", val |-> NoBody]
    ELSE LET parsed == JsonLoads(response) IN
         IF parsed.ok
         THEN [ step |-> "return", exc |-> "",
                val |-> [type |-> parsed.type, val |-> parsed.val] ]
         ELSE IF parsed.type # "JSONDecodeError"
         THEN [step |-> "raise", exc |-> parsed.type, val |-> NoBody]
         ELSE [ step |-> "return", exc |-> "",
                val |-> [ type |-> "object",
                          val |-> [error |->
                              "Could not parse extracted results as JSON."] ] ]

\* ExtractionResponse(extracted_data: Dict[str, Any]): a value that is no
\* mapping fails validation, and pydantic's ValidationError is a ValueError
ExtractionResponse(extracted_data) ==
    IF extracted_data.type = "object"
    THEN [step |-> "return", exc |-> ""]
    ELSE [step |-> "raise", exc |-> "ValueError"]

\* POST /extract-data/ up to the await
extract_evaluation_results(document_id) ==
    /\ IF Unknown(document_id)
       THEN /\ last' = Response("extract", [id |-> document_id],
                                QueryStatus("ValueError"), DocumentNotFound,
                                NoBody, FALSE, FALSE, FALSE)
            /\ UNCHANGED pending
       ELSE /\ Suspend([ op |-> "extract", id |-> document_id, arg |-> <<>>,
                         payload |-> documents_store[document_id].metadata ])
            /\ UNCHANGED last
    /\ UNCHANGED <<documents_store, issued>>

\* POST /extract-data/ from the generation call's outcome on
extract_data_resume(frame, response) ==
    LET out == ExtractFinish(response)
        req == [id |-> frame.id, response |-> response.tag]
    IN
    /\ frame.op = "extract"
    /\ Resume(frame)
    /\ IF out.step = "raise"
       THEN last' = Response("extract", req, QueryStatus(out.exc), out.exc,
                             NoBody, FALSE, FALSE, TRUE)
       ELSE IF ExtractionResponse(out.val).step = "raise"
       THEN last' = Response("extract", req,
                             QueryStatus(ExtractionResponse(out.val).exc),
                             "ValidationError", out.val, FALSE, FALSE, TRUE)
       ELSE last' = Response("extract", req, 200, "", out.val,
                             FALSE, FALSE, TRUE)
    /\ UNCHANGED <<documents_store, issued>>

(***************************************************************************)
(* External search                                                         *)
(***************************************************************************)
\* ranked result lists the paper-search capability can hold for a query:
\* the n most relevant papers, paper 1 first
Feeds == { [i \in 1..n |-> i] : n \in 0..(MaxResults + 1) }

\* the feeds that hold more papers than any max_results asks for
LongFeeds == { feed \in Feeds : Len(feed) = MaxResults + 1 }

\* arxiv.Search(max_results = n).results(): the first n results of the feed
Results(feed, max_results) ==
    SubSeq(feed, 1, IF Len(feed) < max_results THEN Len(feed) ELSE max_results)

\* one entry of papers_data
PaperRecord(result) == [title |-> result, url |-> result]

\* whether the capability raises: failAt is the number of results it yields
\* before it raises, one more than it has to yield when it never raises
Fails(feed, max_results, failAt) == failAt <= Len(Results(feed, max_results))

\* what the loop over search.results() has seen when it ends
Yielded(feed, max_results, failAt) ==
    IF Fails(feed, max_results, failAt)
    THEN SubSeq(Results(feed, max_results), 1, failAt)
    ELSE Results(feed, max_results)

\* mutant of ArxivLookup: the except clause returns what was collected
ArxivLookupPartial(feed, max_results, failAt) ==
    [ i \in DOMAIN Yielded(feed, max_results, failAt) |->
        PaperRecord(Yielded(feed, max_results, failAt)[i]) ]

\* arxiv_lookup_tool: papers_data when the loop ends, [] when anything raises
ArxivLookup(feed, max_results, failAt) ==
    IF Fails(feed, max_results, failAt)
    THEN <<>>
    ELSE [ i \in DOMAIN Results(feed, max_results) |->
             PaperRecord(Results(feed, max_results)[i]) ]

\* POST /arxiv-search/
arxiv_search_endpoint(feed, max_results, failAt) ==
    /\ last' = Response("search",
                        [ max_results |-> max_results,
                          results |-> Yielded(feed, max_results, failAt),
                          failed |-> Fails(feed, max_results, failAt) ],
                        200, "", ArxivLookup(feed, max_results, failAt),
                        FALSE, FALSE, FALSE)
    /\ UNCHANGED <<documents_store, issued, pending>>

(***************************************************************************)
(* Specifications                                                          *)
(***************************************************************************)
Upload(names) ==
    \E filename \in names, file_content \in FileContents :
      upload_document(filename, file_content)

UploadResume ==
    \E frame \in BagToSet(pending), response \in IngestResponses :
      upload_document_resume(frame, response)

GetDocument == \E document_id \in QueryIds : get_document_details(document_id)

Answer == \E document_id \in QueryIds : query_document(document_id)

AnswerResume ==
    \E frame \in BagToSet(pending), response \in TextResponses :
      query_document_resume(frame, response)

Summarize(titles) ==
    \E document_id \in QueryIds, section_title \in titles :
      summarize_document_section(document_id, section_title)

SummarizeResume ==
    \E frame \in BagToSet(pending), response \in TextResponses :
      summarize_document_resume(frame, response)

Extract == \E document_id \in QueryIds : extract_evaluation_results(document_id)

ExtractResume ==
    \E frame \in BagToSet(pending), response \in ExtractResponses :
      extract_data_resume(frame, response)

ExternalSearch(feeds) ==
    \E feed \in feeds, max_results \in 0..MaxResults :
      \E failAt \in 0..(Len(Results(feed, max_results)) + 1) :
        arxiv_search_endpoint(feed, max_results, failAt)

\* the whole service, from an empty store
Next ==
    \/ Upload(SomeFileNames)
    \/ UploadResume
    \/ GetDocument
    \/ Answer
    \/ AnswerResume
    \/ Summarize(SomeSectionTitles)
    \/ SummarizeResume
    \/ Extract
    \/ ExtractResume
    \/ ExternalSearch(LongFeeds)

Spec == Init /\ [][Next]_vars

\* ingestion and retrieval only
NextIngest ==
    \/ Upload(FileNames)
    \/ UploadResume
    \/ GetDocument

SpecIngest == Init /\ [][NextIngest]_vars

\* ingestion interleaved with the two queries that read a whole document
NextConcurrent ==
    \/ Upload(FileNames)
    \/ UploadResume
    \/ GetDocument
    \/ Answer
    \/ AnswerResume

SpecConcurrent == Init /\ [][NextConcurrent]_vars

\* the operations that never write the store, on a store that holds one
\* document with any of the metadata objects
InitQuery ==
    /\ \E m \in Metas :
         documents_store =
           [ i \in {1} |->
               ProcessedDocument(1, <<"a", ".", "p", "d", "f">>,
                                 Get(m, "text_content", <<>>), m) ]
    /\ issued = {1}
    /\ pending = EmptyBag
    /\ last = Response("none", NoReq, 0, "", NoBody, FALSE, FALSE, FALSE)

NextQuery ==
    \/ GetDocument
    \/ Answer
    \/ AnswerResume
    \/ Summarize(SectionTitles)
    \/ SummarizeResume
    \/ Extract
    \/ ExtractResume
    \/ ExternalSearch(Feeds)

SpecQuery == InitQuery /\ [][NextQuery]_vars

(***************************************************************************)
(* Properties                                                              *)
(***************************************************************************)
\* the responses that mean "no such document"
NotFoundDetails == {"Document not found.", DocumentNotFound}

\* the responses that mean "this upload is not a PDF"
UnsupportedFormat ==
    { "Only PDF files are allowed.",
      "Could not determine file type from content.",
      "Unsupported file type. Only PDFs are allowed." }

\* the failures of the rasterizer and of the extraction call
CapabilityFailures ==
    { "Error converting PDF pages to images", "APIError", "TypeError",
      "JSONDecodeError", "AttributeError" }

StoreOps == {"get", "query", "summarize", "extract"}

\* C1: GetDocument, Answer, Summarize and ExtractStructuredData on an id that
\* is no key of the store answer "not found" (404) in that very step, without
\* a generation call (nothing is suspended, the response says none was made)
\* and without touching the store.
C1_UnknownIdNotFound ==
    [][ ( /\ last' # last
          /\ last'.op \in StoreOps
          /\ last'.req.id \notin DOMAIN documents_store )
        => ( /\ last'.status = 404
             /\ last'.detail \in NotFoundDetails
             /\ ~last'.gen
             /\ pending' = pending
             /\ documents_store' = documents_store ) ]_vars

C1_Witness ==
    /\ documents_store # <<>>
    /\ last.op = "summarize"
    /\ last.req.id \notin DOMAIN documents_store
    /\ last.status = 404

\* C2: an upload whose content does not sniff as PDF is refused as not being
\* a PDF (400), whatever its name, and neither uuid4 nor the rasterizer nor
\* the generation call has run for it.
C2_NonPdfRejected ==
    ( last.op = "upload" /\ Guess(last.req.content) # "application/pdf" )
    => ( /\ last.status = 400
         /\ last.detail \in UnsupportedFormat
         /\ ~last.idgen /\ ~last.raster /\ ~last.gen )

C2_Witness ==
    /\ last.op = "upload"
    /\ Guess(last.req.content) = NoKind
    /\ EndsWith(last.req.filename, PdfSuffix)
    /\ last.status = 400
    /\ documents_store # <<>>

\* the step in which an upload is answered with success registered the
\* document: its id was no key before, is one after, and the entry carries
\* that id and the uploaded name
Registered ==
    ( last' # last /\ last'.op = "upload" /\ last'.status = 200 )
    => LET id == last'.body.document_id IN
       /\ id \notin DOMAIN documents_store
       /\ id \in DOMAIN documents_store'
       /\ documents_store'[id].id = id
       /\ documents_store'[id].filename = last'.req.filename
       /\ last'.body.filename = last'.req.filename

C4_StoreImmutable ==
    [][ /\ \A id \in DOMAIN documents_store :
             /\ id \in DOMAIN documents_store'
             /\ documents_store'[id] = documents_store[id]
        /\ ( last'.op = "get" /\ last'.status = 200 )
           => last'.body = documents_store'[last'.req.id] ]_vars

C4_Witness ==
    /\ DOMAIN documents_store = {1, 2}
    /\ documents_store[1].metadata # documents_store[2].metadata
    /\ last.op = "get"
    /\ last.req.id = 1
    /\ last.status = 200

\* C5: the store changes only in the step that answers an upload with
\* success, and that step adds exactly one entry, the finished upload's; a
\* step that answers an upload with a failure leaves the store as it was.
C5_OnlySuccessWrites ==
    [][ documents_store' # documents_store
        => /\ last'.op = "upload"
           /\ last'.status = 200
           /\ \E frame \in BagToSet(pending) :
                /\ frame.op = "upload"
                /\ pending' = pending (-) SetToBag({frame})
                /\ frame.id \notin DOMAIN documents_store
                /\ DOMAIN documents_store' = DOMAIN documents_store \cup {frame.id}
           /\ \A id \in DOMAIN documents_store :
                documents_store'[id] = documents_store[id] ]_vars

C5_Witness ==
    /\ DOMAIN documents_store = {2}
    /\ last.op = "upload"
    /\ last.status # 200
    /\ last.gen
    /\ issued = {1, 2}

\* the sections of a metadata object, as Summarize walks them
SectionsOf(metadata) == Get(metadata, "sections", <<>>)

\* section i of the document has a title equal to t up to case
TitleMatches(metadata, i, t) ==
    /\ "title" \in DOMAIN SectionsOf(metadata)[i]
    /\ Lower(SectionsOf(metadata)[i].title) = Lower(t)

MatchingSections(metadata, t) ==
    {i \in DOMAIN SectionsOf(metadata) : TitleMatches(metadata, i, t)}

FirstMatch(metadata, t) ==
    CHOOSE i \in MatchingSections(metadata, t) :
      \A j \in MatchingSections(metadata, t) : i <= j

\* C6: Summarize with a section title that matches no section up to case
\* answers "section not found" without a generation call; with one that
\* matches, it does not fail unless the generation call does, and what it
\* sends to be summarized is the content of the first matching section.
C6_SectionLookup ==
    /\ ( /\ last.op = "summarize"
         /\ last.req.id \in DOMAIN documents_store
         /\ last.req.section_title # None )
       => LET metadata == documents_store[last.req.id].metadata IN
          IF MatchingSections(metadata, last.req.section_title) = {}
          THEN /\ last.status = 404
               /\ last.detail = SectionNotFound
               /\ ~last.gen
          ELSE last.status = 200 \/ last.gen
    /\ \A frame \in BagToSet(pending) :
         ( frame.op = "summarize" /\ frame.arg # None )
         => LET metadata == documents_store[frame.id].metadata IN
            /\ MatchingSections(metadata, frame.arg) # {}
            /\ "content" \in
                 DOMAIN SectionsOf(metadata)[FirstMatch(metadata, frame.arg)]
            /\ frame.payload =
                 SectionsOf(metadata)[FirstMatch(metadata, frame.arg)].content

\* a document with nothing to summarize: a blank abstract, and no section
\* with any title or content text
EntirelyEmpty(metadata) ==
    /\ Strip(Get(metadata, "abstract", <<>>)) = <<>>
    /\ \A i \in DOMAIN SectionsOf(metadata) :
         /\ Get(SectionsOf(metadata)[i], "title", <<>>) = <<>>
         /\ Get(SectionsOf(metadata)[i], "content", <<>>) = <<>>

\* C7: Summarize without a section title on a document with nothing to
\* summarize answers the sentinel and makes no generation call.
C7_EmptyDocumentSentinel ==
    /\ ( /\ last.op = "summarize"
         /\ last.req.id \in DOMAIN documents_store
         /\ last.req.section_title = None
         /\ EntirelyEmpty(documents_store[last.req.id].metadata) )
       => ( last.status = 200 /\ last.body = Sentinel /\ ~last.gen )
    /\ \A frame \in BagToSet(pending) :
         ( frame.op = "summarize" /\ frame.arg = None )
         => ~EntirelyEmpty(documents_store[frame.id].metadata)

\* C8: whenever the generation call answers ExtractStructuredData with a
\* content, the operation succeeds with a JSON object: the single-key error
\* object when the content is no JSON.
C8_ExtractAlwaysObject ==
    ( /\ last.op = "extract"
      /\ last.gen
      /\ last.req.response \notin {"raise", "none"} )
    => ( /\ last.status = 200
         /\ last.body.type = "object"
         /\ last.req.response = "invalid"
            => DOMAIN last.body.val = {"error"} )

\* C9: ExternalSearch always answers 200: with the empty list when the
\* capability raised, before or after yielding results, and else with the
\* records of what the capability yielded, in its order and no more than
\* max_results of them; the step touches neither the store nor a coroutine.
C9_SearchNeverFails ==
    [][ ( last' # last /\ last'.op = "search" )
        => ( /\ last'.status = 200
             /\ last'.req.failed => last'.body = <<>>
             /\ ~last'.req.failed
                => ( /\ Len(last'.body) <= last'.req.max_results
                     /\ Len(last'.body) = Len(last'.req.results)
                     /\ \A i \in DOMAIN last'.body :
                          last'.body[i].title = last'.req.results[i] )
             /\ documents_store' = documents_store
             /\ pending' = pending ) ]_vars

C9_Witness ==
    /\ last.op = "search"
    /\ last.req.failed
    /\ Len(last.req.results) = 1
    /\ last.req.max_results = 2
    /\ last.body = <<>>

\* what holds of every state while uploads and queries interleave: an id in
\* flight is no key yet and belongs to one upload only, every entry is a
\* whole document filed under its own id, the upload answered last has its
\* own name and its own metadata in its entry, and a suspended query holds
\* the metadata of a whole document
Isolated ==
    /\ \A frame \in BagToSet(pending) :
         frame.op = "upload"
         => /\ frame.id \notin DOMAIN documents_store
            /\ \A other \in BagToSet(pending) :
                 ( other.op = "upload" /\ other.id = frame.id ) => other = frame
            /\ CopiesIn(frame, pending) = 1
    /\ \A id \in DOMAIN documents_store :
         /\ documents_store[id].id = id
         /\ documents_store[id].filename \in FileNames
         /\ documents_store[id].metadata \in IngestMetas
         /\ documents_store[id].extracted_text =
              Get(documents_store[id].metadata, "text_content", <<>>)
    /\ ( last.op = "upload" /\ last.status = 200 )
       => /\ documents_store[last.body.document_id].filename = last.req.filename
          /\ documents_store[last.body.document_id].metadata = last.req.response.val
    /\ \A frame \in BagToSet(pending) :
         frame.op \in {"query", "extract"}
         => frame.payload = documents_store[frame.id].metadata
    /\ ( last.op = "get" /\ last.status = 200 )
       => last.body = documents_store[last.req.id]

\* C10: however uploads and queries interleave, every step keeps the
\* entries of the other documents as they are and ends in a state where
\* each upload's entry is its own and whole.
C10_ConcurrentIngest ==
    [][ /\ Isolated'
        /\ \A id \in DOMAIN documents_store :
             documents_store' # documents_store
             => documents_store'[id] = documents_store[id] ]_vars

\* the upload started second is answered while the one started first is
\* still suspended, and a query on the new document is already in flight
C10_Witness ==
    /\ last.op = "upload"
    /\ last.status = 200
    /\ last.body.document_id = 2
    /\ \E frame \in BagToSet(pending) :
         /\ frame.op = "upload"
         /\ frame.id = 1
         /\ frame.arg # last.req.filename
    /\ \E frame \in BagToSet(pending) : frame.op = "query" /\ frame.id = 2

\* C11: an extraction answer that is a JSON object is registered whatever
\* fields it lacks, and no later GetDocument or Summarize on a registered
\* document fails before its generation call: Summarize ends there only with
\* the sentinel or with "section not found", never with a KeyError for a
\* field the metadata does not have.
C11_MissingFieldsTolerated ==
    /\ ( /\ last.op = "upload"
         /\ last.gen
         /\ last.req.response.tag = "object" )
       => /\ last.status = 200
          /\ last.body.document_id \in DOMAIN documents_store
          /\ documents_store[last.body.document_id].metadata =
               last.req.response.val
    /\ ( /\ last.op \in {"get", "summarize"}
         /\ last.req.id \in DOMAIN documents_store
         /\ ~last.gen )
       => \/ last.status = 200
          \/ /\ last.op = "summarize"
             /\ last.status = 404
             /\ last.detail = SectionNotFound

====
